---- MODULE Spec2Model ----
(***************************************************************************)
(* RSA-SSA-PKCS1 v1.5 signing: RsaSsaPkcs1SignBoringSsl::New (the signer    *)
(* factory) and RsaSsaPkcs1SignBoringSsl::Sign, modelled from              *)
(* cc/subtle/rsa_ssa_pkcs1_sign_boringssl.cc.                               *)
(*                                                                         *)
(* Numbers are scaled: moduli are 8..9 bits instead of 2048, the minimum   *)
(* modulus size is MinModulusBits, digests are one octet.  Key components  *)
(* are big-endian octet strings, parsed by str2bn.  The helpers of         *)
(* SubtleUtilBoringSSL and the BoringSSL primitives are modelled by their   *)
(* contracts; a failing primitive pushes a diagnostic on the calling       *)
(* thread's error queue.                                                   *)
(***************************************************************************)
EXTENDS Integers, Sequences, FiniteSets, TLC

\* ------------------------------------------------------------------------
\* Bounds of the model
\* ------------------------------------------------------------------------
NumThreads == 2

MaxCalls == 3

\* ------------------------------------------------------------------------
\* Scaled policy constants
\* ------------------------------------------------------------------------
MinModulusBits == 9

BadOctet == 256

Threads == 1..NumThreads

\* ------------------------------------------------------------------------
\* util::Status / util::StatusOr
\* ------------------------------------------------------------------------
\* A status: the util::error code, the error kind (which fixed message it
\* carries) and the variable detail appended to the fixed message.
Status(code, kind, detail) == [code |-> code, kind |-> kind, detail |-> detail]

OkStatus == Status("OK", "OK", <<>>)

IsOk(st) == st.code = "OK"

\* ------------------------------------------------------------------------
\* Octet strings and big integers
\* ------------------------------------------------------------------------
RECURSIVE BytesToNat(_)
BytesToNat(s) ==
  IF s = <<>> THEN 0
  ELSE BytesToNat(SubSeq(s, 1, Len(s) - 1)) * 256 + s[Len(s)]

Malformed(s) == \E i \in 1..Len(s) : s[i] \notin 0..255

\* SubtleUtilBoringSSL::str2bn: big-endian octets to BIGNUM.  On failure the
\* primitive library leaves a diagnostic on the error queue.
str2bn(s) ==
  IF Malformed(s)
  THEN [status |-> Status("INVALID_ARGUMENT", "InvalidKeyEncoding", <<>>),
        value |-> 0, errs |-> <<"BN_bin2bn">>]
  ELSE [status |-> OkStatus, value |-> BytesToNat(s), errs |-> <<>>]

RECURSIVE BN_num_bits(_)
BN_num_bits(v) == IF v = 0 THEN 0 ELSE 1 + BN_num_bits(v \div 2)

BN_num_bytes(v) == (BN_num_bits(v) + 7) \div 8

\* Fixed-length big-endian encoding of v in len octets (BN_bn2bin_padded).
RECURSIVE BN_bn2bin_padded(_, _)
BN_bn2bin_padded(v, len) ==
  IF len = 0 THEN <<>>
  ELSE Append(BN_bn2bin_padded(v \div 256, len - 1), v % 256)

RECURSIVE ModExp(_, _, _)
ModExp(b, x, m) ==
  IF x = 0 THEN 1 % m
  ELSE IF x % 2 = 1 THEN (b * ModExp(b, x - 1, m)) % m
       ELSE LET h == ModExp(b, x \div 2, m) IN (h * h) % m

\* ------------------------------------------------------------------------
\* Key Validator (SubtleUtilBoringSSL)
\* ------------------------------------------------------------------------
HashTypes == {"UNKNOWN_HASH", "SHA1", "SHA256", "SHA512"}

ApprovedHashes == {"SHA256", "SHA512"}

ValidateSignatureHash(hash_type) ==
  IF hash_type \in ApprovedHashes THEN OkStatus
  ELSE Status("INVALID_ARGUMENT", "UnsupportedHash", <<>>)

\* Resolves the hash selector to the EVP_MD handle.
EvpHash(hash_type) ==
  IF hash_type \in {"SHA1", "SHA256", "SHA512"}
  THEN [status |-> OkStatus, value |-> hash_type]
  ELSE [status |-> Status("UNIMPLEMENTED", "UnsupportedHash", <<>>),
        value |-> "NONE"]

ValidateRsaModulusSize(modulus_size) ==
  IF modulus_size < MinModulusBits
  THEN Status("INVALID_ARGUMENT", "ModulusTooSmall", <<>>)
  ELSE OkStatus

\* ------------------------------------------------------------------------
\* RSA key object (BoringSSL RSA) and its population
\* ------------------------------------------------------------------------
EmptyRsa ==
  [n |-> 0, e |-> 0, d |-> 0, p |-> 0, q |-> 0,
   dmp1 |-> 0, dmq1 |-> 0, iqmp |-> 0]

\* The first failing parse among a sequence of parse results, or <<>>.
FirstFailure(parsed) ==
  LET bad == {i \in 1..Len(parsed) : ~IsOk(parsed[i].status)} IN
  IF bad = {} THEN <<>>
  ELSE <<parsed[CHOOSE i \in bad : \A j \in bad : i <= j]>>

\* SubtleUtilBoringSSL::CopyKey: n, e, d into the key object.
CopyKey(key, rsa) ==
  LET n == str2bn(key.n)
      e == str2bn(key.e)
      d == str2bn(key.d)
      f == FirstFailure(<<n, e, d>>)
  IN IF f # <<>>
     THEN [status |-> f[1].status, rsa |-> rsa, errs |-> f[1].errs]
     ELSE [status |-> OkStatus,
           rsa |-> [rsa EXCEPT !.n = n.value, !.e = e.value, !.d = d.value],
           errs |-> <<>>]

\* SubtleUtilBoringSSL::CopyPrimeFactors: p, q into the key object.
CopyPrimeFactors(key, rsa) ==
  LET p == str2bn(key.p)
      q == str2bn(key.q)
      f == FirstFailure(<<p, q>>)
  IN IF f # <<>>
     THEN [status |-> f[1].status, rsa |-> rsa, errs |-> f[1].errs]
     ELSE [status |-> OkStatus,
           rsa |-> [rsa EXCEPT !.p = p.value, !.q = q.value],
           errs |-> <<>>]

\* SubtleUtilBoringSSL::CopyCrtParams: dp, dq, crt into the key object.
CopyCrtParams(key, rsa) ==
  LET dp == str2bn(key.dp)
      dq == str2bn(key.dq)
      crt == str2bn(key.crt)
      f == FirstFailure(<<dp, dq, crt>>)
  IN IF f # <<>>
     THEN [status |-> f[1].status, rsa |-> rsa, errs |-> f[1].errs]
     ELSE [status |-> OkStatus,
           rsa |-> [rsa EXCEPT !.dmp1 = dp.value, !.dmq1 = dq.value,
                               !.iqmp = crt.value],
           errs |-> <<>>]

\* RSA_check_key: the RSA identities between the components.  The value is
\* the sequence of diagnostics the check raises; <<>> means the key passes.
RSA_check_key(rsa) ==
  IF rsa.p < 2 \/ rsa.q < 2 \/ rsa.n # rsa.p * rsa.q
  THEN <<"RSA_R_N_NOT_EQUAL_P_Q">>
  ELSE IF (rsa.d * rsa.e) % (rsa.p - 1) # 1 % (rsa.p - 1)
          \/ (rsa.d * rsa.e) % (rsa.q - 1) # 1 % (rsa.q - 1)
  THEN <<"RSA_R_D_E_NOT_CONGRUENT_TO_1">>
  ELSE IF rsa.dmp1 # rsa.d % (rsa.p - 1) \/ rsa.dmq1 # rsa.d % (rsa.q - 1)
          \/ (rsa.iqmp * rsa.q) % rsa.p # 1 % rsa.p
  THEN <<"RSA_R_CRT_VALUES_INCORRECT">>
  ELSE <<>>

\* RSA_check_fips: the hardened profile; beyond RSA_check_key, the partial
\* public-key validation rejects a modulus with a small prime factor.
SmallPrimes == {2, 3, 5, 7}

RSA_check_fips(rsa) ==
  IF RSA_check_key(rsa) # <<>> THEN RSA_check_key(rsa)
  ELSE IF \E f \in SmallPrimes : rsa.n % f = 0
  THEN <<"RSA_R_PUBLIC_KEY_VALIDATION_FAILED">>
  ELSE <<>>

RSA_size(rsa) == BN_num_bytes(rsa.n)

\* SubtleUtilBoringSSL::GetErrors: the text of every queued diagnostic; the
\* queue is empty afterwards.
GetErrors(queue) == [text |-> queue, queue |-> <<>>]

\* ------------------------------------------------------------------------
\* Signer Factory: RsaSsaPkcs1SignBoringSsl::New
\* ------------------------------------------------------------------------
NoSigner == <<>>

\* What New hands back: the status, the Signer (<<>> when none), the error
\* queue it leaves behind and the primitive calls it made, in order.
Outcome(status, signer, queue, calls) ==
  [status |-> status, signer |-> signer, queue |-> queue, calls |-> calls]

\* The Signer: the assembled key object and the resolved hash handle.
RsaSsaPkcs1SignBoringSsl(private_key, sig_hash) ==
  [private_key |-> private_key, sig_hash |-> sig_hash]

\* NewCheck without the hardened check: only RSA_check_key decides.
NewCheckKeyOnly(rsa, sig_hash, queue, calls) ==
  LET key_errs == RSA_check_key(rsa)
  IN IF key_errs # <<>>
     THEN LET errors == GetErrors(queue \o key_errs) IN
          Outcome(Status("INVALID_ARGUMENT", "InvalidKey", errors.text),
                  NoSigner, errors.queue,
                  calls \o <<"RSA_check_key", "GetErrors">>)
     ELSE Outcome(OkStatus, <<RsaSsaPkcs1SignBoringSsl(rsa, sig_hash)>>,
                  queue, calls \o <<"RSA_check_key">>)

\* The self-consistency check and the construction of the Signer.
NewCheck(rsa, sig_hash, queue, calls) ==
  LET key_errs == RSA_check_key(rsa)
      fips_errs == RSA_check_fips(rsa)
  IN IF key_errs # <<>>
     THEN LET errors == GetErrors(queue \o key_errs) IN
          Outcome(Status("INVALID_ARGUMENT", "InvalidKey", errors.text),
                  NoSigner, errors.queue,
                  calls \o <<"RSA_check_key", "GetErrors">>)
     ELSE IF fips_errs # <<>>
     THEN LET errors == GetErrors(queue \o fips_errs) IN
          Outcome(Status("INVALID_ARGUMENT", "InvalidKey", errors.text),
                  NoSigner, errors.queue,
                  calls \o <<"RSA_check_key", "RSA_check_fips", "GetErrors">>)
     ELSE Outcome(OkStatus, <<RsaSsaPkcs1SignBoringSsl(rsa, sig_hash)>>,
                  queue, calls \o <<"RSA_check_key", "RSA_check_fips">>)

\* NewBuild with the status of CopyCrtParams dropped.
NewBuildCrtUnchecked(private_key, sig_hash, rsa_new_ok, queue, calls) ==
  IF ~rsa_new_ok
  THEN Outcome(Status("INTERNAL", "InternalAllocationError", <<>>),
               NoSigner, queue \o <<"ERR_R_MALLOC_FAILURE">>,
               calls \o <<"RSA_new">>)
  ELSE LET st1 == CopyKey(private_key, EmptyRsa) IN
  IF ~IsOk(st1.status)
  THEN Outcome(st1.status, NoSigner, queue \o st1.errs,
               calls \o <<"RSA_new", "CopyKey">>)
  ELSE LET st2 == CopyPrimeFactors(private_key, st1.rsa) IN
  IF ~IsOk(st2.status)
  THEN Outcome(st2.status, NoSigner, queue \o st2.errs,
               calls \o <<"RSA_new", "CopyKey", "CopyPrimeFactors">>)
  ELSE LET st3 == CopyCrtParams(private_key, st2.rsa) IN
       NewCheck(st3.rsa, sig_hash, queue \o st3.errs,
                calls \o <<"RSA_new", "CopyKey", "CopyPrimeFactors",
                           "CopyCrtParams">>)

\* Allocation of the key object and the three copies into it.
NewBuild(private_key, sig_hash, rsa_new_ok, queue, calls) ==
  IF ~rsa_new_ok
  THEN Outcome(Status("INTERNAL", "InternalAllocationError", <<>>),
               NoSigner, queue \o <<"ERR_R_MALLOC_FAILURE">>,
               calls \o <<"RSA_new">>)
  ELSE LET st1 == CopyKey(private_key, EmptyRsa) IN
  IF ~IsOk(st1.status)
  THEN Outcome(st1.status, NoSigner, queue \o st1.errs,
               calls \o <<"RSA_new", "CopyKey">>)
  ELSE LET st2 == CopyPrimeFactors(private_key, st1.rsa) IN
  IF ~IsOk(st2.status)
  THEN Outcome(st2.status, NoSigner, queue \o st2.errs,
               calls \o <<"RSA_new", "CopyKey", "CopyPrimeFactors">>)
  ELSE LET st3 == CopyCrtParams(private_key, st2.rsa) IN
  IF ~IsOk(st3.status)
  THEN Outcome(st3.status, NoSigner, queue \o st3.errs,
               calls \o <<"RSA_new", "CopyKey", "CopyPrimeFactors",
                          "CopyCrtParams">>)
  ELSE NewCheck(st3.rsa, sig_hash, queue,
                calls \o <<"RSA_new", "CopyKey", "CopyPrimeFactors",
                           "CopyCrtParams">>)

\* NewModulus with the result of the size validation dropped.
NewModulusSizeIgnored(private_key, sig_hash, rsa_new_ok, queue, calls) ==
  LET status_or_n == str2bn(private_key.n) IN
  IF ~IsOk(status_or_n.status)
  THEN Outcome(status_or_n.status, NoSigner, queue \o status_or_n.errs,
               calls \o <<"str2bn">>)
  ELSE NewBuild(private_key, sig_hash, rsa_new_ok, queue,
                calls \o <<"str2bn", "ValidateRsaModulusSize">>)

\* NewModulus validating the length of the encoding of n instead of the
\* bit length of the parsed n.
NewModulusEncodedLength(private_key, sig_hash, rsa_new_ok, queue, calls) ==
  LET status_or_n == str2bn(private_key.n) IN
  IF ~IsOk(status_or_n.status)
  THEN Outcome(status_or_n.status, NoSigner, queue \o status_or_n.errs,
               calls \o <<"str2bn">>)
  ELSE LET modulus_status ==
             ValidateRsaModulusSize(8 * Len(private_key.n)) IN
  IF ~IsOk(modulus_status)
  THEN Outcome(modulus_status, NoSigner, queue,
               calls \o <<"str2bn", "ValidateRsaModulusSize">>)
  ELSE NewBuild(private_key, sig_hash, rsa_new_ok, queue,
                calls \o <<"str2bn", "ValidateRsaModulusSize">>)

\* The check of the modulus: parse n, then its size in bits.
NewModulus(private_key, sig_hash, rsa_new_ok, queue, calls) ==
  LET status_or_n == str2bn(private_key.n) IN
  IF ~IsOk(status_or_n.status)
  THEN Outcome(status_or_n.status, NoSigner, queue \o status_or_n.errs,
               calls \o <<"str2bn">>)
  ELSE LET modulus_status ==
             ValidateRsaModulusSize(BN_num_bits(status_or_n.value)) IN
  IF ~IsOk(modulus_status)
  THEN Outcome(modulus_status, NoSigner, queue,
               calls \o <<"str2bn", "ValidateRsaModulusSize">>)
  ELSE NewBuild(private_key, sig_hash, rsa_new_ok, queue,
                calls \o <<"str2bn", "ValidateRsaModulusSize">>)

\* New parsing the modulus before it validates the hash.
NewModulusFirst(private_key, params, rsa_new_ok, queue) ==
  LET status_or_n == str2bn(private_key.n) IN
  IF ~IsOk(status_or_n.status)
  THEN Outcome(status_or_n.status, NoSigner, queue \o status_or_n.errs,
               <<"str2bn">>)
  ELSE LET sig_hash_valid == ValidateSignatureHash(params.hash_type) IN
  IF ~IsOk(sig_hash_valid)
  THEN Outcome(sig_hash_valid, NoSigner, queue,
               <<"str2bn", "ValidateSignatureHash">>)
  ELSE LET sig_hash == EvpHash(params.hash_type) IN
  IF ~IsOk(sig_hash.status)
  THEN Outcome(sig_hash.status, NoSigner, queue,
               <<"str2bn", "ValidateSignatureHash", "EvpHash">>)
  ELSE NewModulus(private_key, sig_hash.value, rsa_new_ok, queue,
                  <<"ValidateSignatureHash", "EvpHash">>)

\* New(private_key, params): rsa_new_ok is whether RSA_new can allocate,
\* queue the calling thread's error queue on entry.
New(private_key, params, rsa_new_ok, queue) ==
  LET sig_hash_valid == ValidateSignatureHash(params.hash_type) IN
  IF ~IsOk(sig_hash_valid)
  THEN Outcome(sig_hash_valid, NoSigner, queue, <<"ValidateSignatureHash">>)
  ELSE LET sig_hash == EvpHash(params.hash_type) IN
  IF ~IsOk(sig_hash.status)
  THEN Outcome(sig_hash.status, NoSigner, queue,
               <<"ValidateSignatureHash", "EvpHash">>)
  ELSE NewModulus(private_key, sig_hash.value, rsa_new_ok, queue,
                  <<"ValidateSignatureHash", "EvpHash">>)

\* ------------------------------------------------------------------------
\* Inputs: private key material
\* ------------------------------------------------------------------------
\* Minimal big-endian encoding of v.
Enc(v) == BN_bn2bin_padded(v, BN_num_bytes(v))

RsaPrivateKey(n, e, d, p, q, dp, dq, crt) ==
  [n |-> Enc(n), e |-> Enc(e), d |-> Enc(d), p |-> Enc(p), q |-> Enc(q),
   dp |-> Enc(dp), dq |-> Enc(dq), crt |-> Enc(crt)]

\* n = 17 * 19 = 323 (9 bits, 2 octets): consistent and hardened.
KeyGood == RsaPrivateKey(323, 7, 103, 17, 19, 7, 13, 9)

\* The same key with a leading zero octet in n.
KeyGoodPadded == [KeyGood EXCEPT !.n = <<0>> \o KeyGood.n]

\* n = 7 * 47 = 329 (9 bits): consistent, but n has a small prime factor.
KeyNotHardened == RsaPrivateKey(329, 5, 83, 7, 47, 5, 37, 3)

\* n = 323 but q = 23: n # p * q.
KeyInconsistent == [KeyGood EXCEPT !.q = Enc(23)]

\* n = 11 * 13 = 143 (8 bits): consistent and hardened, below the minimum.
KeySmall == RsaPrivateKey(143, 7, 43, 11, 13, 3, 7, 6)

KeyBadN == [KeyGood EXCEPT !.n = <<1, BadOctet>>]

KeyBadE == [KeyGood EXCEPT !.e = <<BadOctet>>]

KeyBadP == [KeyInconsistent EXCEPT !.p = <<BadOctet>>]

KeyBadDq == [KeyGood EXCEPT !.dq = <<BadOctet>>]

KeySmallBadE == [KeySmall EXCEPT !.e = <<BadOctet>>]

\* The small key with n written in two octets.
KeySmallPadded == [KeySmall EXCEPT !.n = <<0>> \o KeySmall.n]

KeyMaterials ==
  {KeyGood, KeyGoodPadded, KeyNotHardened, KeyInconsistent, KeySmall,
   KeyBadN, KeyBadE, KeyBadP, KeyBadDq, KeySmallBadE, KeySmallPadded}

\* ------------------------------------------------------------------------
\* Primitives used by Sign
\* ------------------------------------------------------------------------
\* A string_view: null (no data pointer) or a sequence of octets.
StringView(null, bytes) == [null |-> null, bytes |-> bytes]

Messages ==
  {StringView(TRUE, <<>>), StringView(FALSE, <<>>),
   StringView(FALSE, <<104>>), StringView(FALSE, <<30>>)}

\* SubtleUtilBoringSSL::EnsureNonNull: a null view becomes the empty string.
EnsureNonNull(data) == IF data.null THEN StringView(FALSE, <<>>) ELSE data

RECURSIVE SumOctets(_)
SumOctets(s) == IF s = <<>> THEN 0 ELSE s[1] + SumOctets(Tail(s))

\* EVP_MD_type: the digest algorithm identifier of a hash handle.
EVP_MD_type(sig_hash) ==
  CASE sig_hash = "SHA1" -> 64
    [] sig_hash = "SHA256" -> 672
    [] sig_hash = "SHA512" -> 674
    [] OTHER -> 0

\* The (one-octet) digest of a message under a hash function.
Digest(bytes, sig_hash) ==
  (31 * SumOctets(bytes) + 7 * Len(bytes) + EVP_MD_type(sig_hash)) % 256

\* boringssl::ComputeHash: the digest, or an error when the primitive fails.
ComputeHash(data, sig_hash, hash_ok) ==
  IF hash_ok
  THEN [status |-> OkStatus, value |-> <<Digest(data.bytes, sig_hash)>>,
        errs |-> <<>>]
  ELSE [status |-> Status("INTERNAL", "SigningFailure", <<>>),
        value |-> <<>>, errs |-> <<"EVP_Digest">>]

\* The PKCS#1 v1.5 encoded message as an integer below n: the algorithm
\* identifier followed by the digest.
EmsaPkcs1(hash_nid, digest, n) == (hash_nid * 256 + digest[1]) % n

\* RSA_sign: 1 and the signature, written in RSA_size octets, or 0 and a
\* diagnostic on the error queue.
RSA_sign(hash_nid, digest, rsa, sign_ok) ==
  IF sign_ok
  THEN [ret |-> 1,
        out |-> BN_bn2bin_padded(
                  ModExp(EmsaPkcs1(hash_nid, digest, rsa.n), rsa.d, rsa.n),
                  RSA_size(rsa)),
        out_len |-> RSA_size(rsa), errs |-> <<>>]
  ELSE [ret |-> 0, out |-> BN_bn2bin_padded(0, RSA_size(rsa)),
        out_len |-> 0, errs |-> <<"RSA_R_INTERNAL_ERROR">>]

\* ------------------------------------------------------------------------
\* State
\* ------------------------------------------------------------------------
VARIABLES
  signer,      \* the Signer the caller holds: <<>> or <<Signer>>
  created,     \* the Signer as the factory returned it
  createCall,  \* the last call of New: <<>> or <<its inputs and outcome>>
  errQueue,    \* the error queue of each thread
  ncalls,      \* the number of calls of New and Sign made so far
  pc,          \* where each thread is in Sign: "idle", "hashed", "done"
  frame        \* the locals and the result of each thread's call of Sign

vars == <<signer, created, createCall, errQueue, ncalls, pc, frame>>

NoFrame ==
  [data |-> StringView(TRUE, <<>>), hash_ok |-> TRUE, sign_ok |-> TRUE,
   digest |-> <<>>, status |-> OkStatus, value |-> <<>>]

Init ==
  /\ signer = NoSigner
  /\ created = NoSigner
  /\ createCall = <<>>
  /\ errQueue = [t \in Threads |-> <<>>]
  /\ ncalls = 0
  /\ pc = [t \in Threads |-> "idle"]
  /\ frame = [t \in Threads |-> NoFrame]

\* ------------------------------------------------------------------------
\* Operations
\* ------------------------------------------------------------------------
\* Thread t calls New; the caller keeps the Signer when one is returned.
Create(t) ==
  /\ signer = NoSigner
  /\ pc[t] = "idle"
  /\ ncalls < MaxCalls
  /\ \E private_key \in KeyMaterials, hash_type \in HashTypes,
        rsa_new_ok \in BOOLEAN :
       LET params == [hash_type |-> hash_type]
           r == New(private_key, params, rsa_new_ok, errQueue[t])
       IN /\ createCall' = <<[thread |-> t, private_key |-> private_key,
                              params |-> params, rsa_new_ok |-> rsa_new_ok,
                              queue |-> errQueue[t], outcome |-> r]>>
          /\ signer' = r.signer
          /\ created' = r.signer
          /\ errQueue' = [errQueue EXCEPT ![t] = r.queue]
  /\ ncalls' = ncalls + 1
  /\ UNCHANGED <<pc, frame>>

\* Sign, first part: the digest of the message.
SignDigest(t) ==
  /\ signer # NoSigner
  /\ pc[t] \in {"idle", "done"}
  /\ ncalls < MaxCalls
  /\ \E message \in Messages, hash_ok \in BOOLEAN :
       LET data == EnsureNonNull(message)
           digest_or == ComputeHash(data, signer[1].sig_hash, hash_ok)
       IN IF ~IsOk(digest_or.status)
          THEN /\ pc' = [pc EXCEPT ![t] = "done"]
               /\ frame' = [frame EXCEPT ![t] =
                    [NoFrame EXCEPT !.data = message, !.hash_ok = hash_ok,
                                    !.status = digest_or.status]]
               /\ errQueue' = [errQueue EXCEPT ![t] = @ \o digest_or.errs]
          ELSE /\ pc' = [pc EXCEPT ![t] = "hashed"]
               /\ frame' = [frame EXCEPT ![t] =
                    [NoFrame EXCEPT !.data = message, !.hash_ok = hash_ok,
                                    !.digest = digest_or.value]]
               /\ UNCHANGED errQueue
  /\ ncalls' = ncalls + 1
  /\ UNCHANGED <<signer, created, createCall>>

\* SignRsa with the return value of RSA_sign ignored.
SignRsaUnchecked(t) ==
  /\ pc[t] = "hashed"
  /\ \E sign_ok \in BOOLEAN :
       LET private_key == signer[1].private_key
           r == RSA_sign(EVP_MD_type(signer[1].sig_hash), frame[t].digest,
                         private_key, sign_ok)
       IN /\ errQueue' = [errQueue EXCEPT ![t] = @ \o r.errs]
          /\ frame' = [frame EXCEPT ![t].sign_ok = sign_ok,
                         ![t].value = SubSeq(r.out, 1, r.out_len)]
          /\ UNCHANGED signer
  /\ pc' = [pc EXCEPT ![t] = "done"]
  /\ UNCHANGED <<created, createCall, ncalls>>

\* SignRsa returning digest.size() octets of the signature buffer.
SignRsaDigestLength(t) ==
  /\ pc[t] = "hashed"
  /\ \E sign_ok \in BOOLEAN :
       LET private_key == signer[1].private_key
           r == RSA_sign(EVP_MD_type(signer[1].sig_hash), frame[t].digest,
                         private_key, sign_ok)
       IN IF r.ret # 1
          THEN /\ errQueue' = [errQueue EXCEPT ![t] =
                                 GetErrors(@ \o r.errs).queue]
               /\ frame' = [frame EXCEPT ![t].sign_ok = sign_ok,
                              ![t].status =
                                 Status("INTERNAL", "SigningFailure", <<>>)]
               /\ UNCHANGED signer
          ELSE /\ UNCHANGED <<errQueue, signer>>
               /\ frame' = [frame EXCEPT ![t].sign_ok = sign_ok,
                              ![t].value = SubSeq(r.out, 1, Len(frame[t].digest))]
  /\ pc' = [pc EXCEPT ![t] = "done"]
  /\ UNCHANGED <<created, createCall, ncalls>>

\* SignRsa clearing the private exponent of the key when RSA_sign fails.
SignRsaScrubsKey(t) ==
  /\ pc[t] = "hashed"
  /\ \E sign_ok \in BOOLEAN :
       LET private_key == signer[1].private_key
           r == RSA_sign(EVP_MD_type(signer[1].sig_hash), frame[t].digest,
                         private_key, sign_ok)
       IN IF r.ret # 1
          THEN /\ errQueue' = [errQueue EXCEPT ![t] =
                                 GetErrors(@ \o r.errs).queue]
               /\ frame' = [frame EXCEPT ![t].sign_ok = sign_ok,
                              ![t].status =
                                 Status("INTERNAL", "SigningFailure", <<>>)]
               /\ signer' = <<[signer[1] EXCEPT !.private_key.d = 0]>>
          ELSE /\ UNCHANGED <<errQueue, signer>>
               /\ frame' = [frame EXCEPT ![t].sign_ok = sign_ok,
                              ![t].value = SubSeq(r.out, 1, r.out_len)]
  /\ pc' = [pc EXCEPT ![t] = "done"]
  /\ UNCHANGED <<created, createCall, ncalls>>

\* Sign, second part: the private-key operation and the result.
SignRsa(t) ==
  /\ pc[t] = "hashed"
  /\ \E sign_ok \in BOOLEAN :
       LET private_key == signer[1].private_key
           r == RSA_sign(EVP_MD_type(signer[1].sig_hash), frame[t].digest,
                         private_key, sign_ok)
       IN IF r.ret # 1
          THEN /\ errQueue' = [errQueue EXCEPT ![t] =
                                 GetErrors(@ \o r.errs).queue]
               /\ frame' = [frame EXCEPT ![t].sign_ok = sign_ok,
                              ![t].status =
                                 Status("INTERNAL", "SigningFailure", <<>>)]
          ELSE /\ UNCHANGED errQueue
               /\ frame' = [frame EXCEPT ![t].sign_ok = sign_ok,
                              ![t].value = SubSeq(r.out, 1, r.out_len)]
  /\ pc' = [pc EXCEPT ![t] = "done"]
  /\ UNCHANGED <<signer, created, createCall, ncalls>>

Next == \E t \in Threads : Create(t) \/ SignDigest(t) \/ SignRsa(t)

Spec == Init /\ [][Next]_vars

\* ------------------------------------------------------------------------
\* What a call of New was given, stated on the inputs alone
\* ------------------------------------------------------------------------
Components(key) ==
  <<key.n, key.e, key.d, key.p, key.q, key.dp, key.dq, key.crt>>

AllEncoded(key) ==
  \A i \in 1..Len(Components(key)) : ~Malformed(Components(key)[i])

Decoded(key) ==
  [n |-> BytesToNat(key.n), e |-> BytesToNat(key.e), d |-> BytesToNat(key.d),
   p |-> BytesToNat(key.p), q |-> BytesToNat(key.q),
   dmp1 |-> BytesToNat(key.dp), dmq1 |-> BytesToNat(key.dq),
   iqmp |-> BytesToNat(key.crt)]

HashApproved(c) == c.params.hash_type \in ApprovedHashes

\* 2^(b-1) <= n < 2^b, without BN_num_bits.
BitLength(n) == CHOOSE b \in 0..32 : n < 2^b /\ (b = 0 \/ 2^(b-1) <= n)

SizeOk(key) == BitLength(BytesToNat(key.n)) >= MinModulusBits

ArithmeticallyConsistent(key) ==
  LET k == Decoded(key) IN
  /\ k.n = k.p * k.q
  /\ (k.e * k.d) % (k.p - 1) = 1
  /\ (k.e * k.d) % (k.q - 1) = 1
  /\ k.dmp1 = k.d % (k.p - 1)
  /\ k.dmq1 = k.d % (k.q - 1)
  /\ (k.iqmp * k.q) % k.p = 1

Hardened(key) == \A f \in SmallPrimes : BytesToNat(key.n) % f # 0

AllStepsSucceeded(c) ==
  /\ HashApproved(c)
  /\ AllEncoded(c.private_key)
  /\ SizeOk(c.private_key)
  /\ c.rsa_new_ok
  /\ ArithmeticallyConsistent(c.private_key)
  /\ Hardened(c.private_key)

\* ------------------------------------------------------------------------
\* Properties
\* ------------------------------------------------------------------------
\* C1: New returns a Signer exactly when every step succeeded (hash
\* approved, every component parsed, modulus size accepted, key object
\* allocated, both consistency checks passed); the Signer then holds the
\* parsed components and the resolved hash; in every other case the result
\* is an error and no Signer.
C1_SignerIffAllStepsSucceeded ==
  createCall # <<>> =>
    LET c == createCall[1]
        o == c.outcome
    IN /\ IsOk(o.status) <=> AllStepsSucceeded(c)
       /\ o.signer # NoSigner <=> IsOk(o.status)
       /\ signer = o.signer
       /\ o.signer # NoSigner =>
            o.signer[1] = RsaSsaPkcs1SignBoringSsl(Decoded(c.private_key),
                                                   c.params.hash_type)

C1_Witness ==
  /\ createCall # <<>>
  /\ IsOk(createCall[1].outcome.status)
  /\ signer # NoSigner
  /\ signer[1].private_key.n = 323

\* C2 as stated: the precedence is hash, then the encoding of any key
\* component, then the modulus size, then consistency.
C2_EncodingOfAnyComponentBeforeSize ==
  (createCall # <<>> /\ createCall[1].rsa_new_ok) =>
    LET c == createCall[1]
        kind == c.outcome.status.kind
    IN /\ ~HashApproved(c) => kind = "UnsupportedHash"
       /\ (HashApproved(c) /\ ~AllEncoded(c.private_key)) =>
            kind = "InvalidKeyEncoding"
       /\ (HashApproved(c) /\ AllEncoded(c.private_key)
           /\ ~SizeOk(c.private_key)) => kind = "ModulusTooSmall"
       /\ (HashApproved(c) /\ AllEncoded(c.private_key)
           /\ SizeOk(c.private_key)
           /\ ~(ArithmeticallyConsistent(c.private_key)
                /\ Hardened(c.private_key))) => kind = "InvalidKey"

\* C2 (amended): the error is the one of the first failing step in the
\* order hash, encoding of n, modulus size, allocation, encoding of the
\* other components, consistency.
C2_ErrorOfFirstFailingStep ==
  createCall # <<>> =>
    LET c == createCall[1]
        key == c.private_key
    IN c.outcome.status.kind =
         IF ~HashApproved(c) THEN "UnsupportedHash"
         ELSE IF Malformed(key.n) THEN "InvalidKeyEncoding"
         ELSE IF ~SizeOk(key) THEN "ModulusTooSmall"
         ELSE IF ~c.rsa_new_ok THEN "InternalAllocationError"
         ELSE IF ~AllEncoded(key) THEN "InvalidKeyEncoding"
         ELSE IF ~(ArithmeticallyConsistent(key) /\ Hardened(key))
              THEN "InvalidKey"
         ELSE "OK"

C2_Witness ==
  /\ createCall # <<>>
  /\ HashApproved(createCall[1])
  /\ ~AllEncoded(createCall[1].private_key)
  /\ ~Malformed(createCall[1].private_key.n)
  /\ ~SizeOk(createCall[1].private_key)
  /\ createCall[1].outcome.status.kind = "ModulusTooSmall"

\* C3: with a hash selector outside the approved set New fails with
\* UnsupportedHash whatever the key material is, having parsed no key
\* component and allocated no key object.
C3_UnsupportedHashFirst ==
  (createCall # <<>> /\ ~HashApproved(createCall[1])) =>
    LET o == createCall[1].outcome
    IN /\ o.status.kind = "UnsupportedHash"
       /\ o.signer = NoSigner
       /\ \A i \in 1..Len(o.calls) :
            o.calls[i] \notin {"str2bn", "RSA_new", "CopyKey",
                               "CopyPrimeFactors", "CopyCrtParams"}
       /\ o.queue = createCall[1].queue

C3_Witness ==
  /\ createCall # <<>>
  /\ createCall[1].params.hash_type = "SHA1"
  /\ Malformed(createCall[1].private_key.n)
  /\ createCall[1].outcome.status.kind = "UnsupportedHash"

\* C4 as stated: every key whose modulus is below the minimum makes New
\* fail with ModulusTooSmall.
C4_EverySmallModulusIsModulusTooSmall ==
  (createCall # <<>> /\ ~Malformed(createCall[1].private_key.n)
   /\ ~SizeOk(createCall[1].private_key)) =>
    createCall[1].outcome.status.kind = "ModulusTooSmall"

\* C4 (amended): with an approved hash selector, every key whose parsed
\* modulus is below the minimum makes New fail with ModulusTooSmall, before
\* the key object is allocated and before any consistency check runs.
C4_SmallModulusWithApprovedHash ==
  (createCall # <<>> /\ HashApproved(createCall[1])
   /\ ~Malformed(createCall[1].private_key.n)
   /\ ~SizeOk(createCall[1].private_key)) =>
    LET o == createCall[1].outcome
    IN /\ o.status.kind = "ModulusTooSmall"
       /\ o.signer = NoSigner
       /\ \A i \in 1..Len(o.calls) :
            o.calls[i] \notin {"RSA_new", "RSA_check_key", "RSA_check_fips"}

C4_Witness ==
  /\ createCall # <<>>
  /\ HashApproved(createCall[1])
  /\ createCall[1].private_key = KeySmallPadded
  /\ ArithmeticallyConsistent(createCall[1].private_key)
  /\ Hardened(createCall[1].private_key)
  /\ createCall[1].outcome.status.kind = "ModulusTooSmall"

\* C5: once hash, encoding, size and allocation have passed, New fails with
\* InvalidKey when the arithmetic check or the hardened check fails; no
\* Signer is returned for a key that passes only one of them.
C5_InvalidKeyIfEitherCheckFails ==
  (createCall # <<>> /\ HashApproved(createCall[1])
   /\ AllEncoded(createCall[1].private_key)
   /\ SizeOk(createCall[1].private_key) /\ createCall[1].rsa_new_ok
   /\ ~(ArithmeticallyConsistent(createCall[1].private_key)
        /\ Hardened(createCall[1].private_key))) =>
    LET o == createCall[1].outcome
    IN /\ o.status.kind = "InvalidKey"
       /\ o.status.code = "INVALID_ARGUMENT"
       /\ o.signer = NoSigner
       /\ signer = NoSigner

C5_Witness ==
  /\ createCall # <<>>
  /\ HashApproved(createCall[1])
  /\ createCall[1].rsa_new_ok
  /\ ArithmeticallyConsistent(createCall[1].private_key)
  /\ ~Hardened(createCall[1].private_key)
  /\ createCall[1].outcome.status.kind = "InvalidKey"

\* C6: no error returned by New or Sign carries content of the primitive
\* library's error queue.
C6_NoLibraryDiagnosticsInErrors ==
  /\ createCall # <<>> => createCall[1].outcome.status.detail = <<>>
  /\ \A t \in Threads : pc[t] = "done" => frame[t].status.detail = <<>>

SignAlone(s, message, hash_ok, sign_ok) ==
  LET digest_or == ComputeHash(EnsureNonNull(message), s.sig_hash, hash_ok)
      r == RSA_sign(EVP_MD_type(s.sig_hash), digest_or.value, s.private_key,
                    sign_ok)
  IN IF ~hash_ok THEN [status |-> digest_or.status, value |-> <<>>]
     ELSE IF ~sign_ok
     THEN [status |-> Status("INTERNAL", "SigningFailure", <<>>),
           value |-> <<>>]
     ELSE [status |-> OkStatus, value |-> r.out]

\* C9: Sign never changes the Signer, and under every interleaving of the
\* threads each call of Sign returns what it returns when run alone on the
\* Signer as the factory created it.
C9_SignReadsOnly ==
  /\ [](\A t \in Threads :
          pc[t] = "done" =>
            [status |-> frame[t].status, value |-> frame[t].value]
              = SignAlone(created[1], frame[t].data, frame[t].hash_ok,
                          frame[t].sign_ok))
  /\ [][signer # NoSigner => signer' = signer]_vars

C9_Witness ==
  \E t1, t2 \in Threads :
    /\ t1 # t2
    /\ pc[t1] = "done" /\ IsOk(frame[t1].status)
    /\ pc[t2] = "hashed"
    /\ frame[t1].data # frame[t2].data

\* C10: after every call of New or Sign that returns an error, the error
\* queue of the calling thread is empty.
C10_QueueDrainedOnEveryFailure ==
  /\ (createCall # <<>> /\ ~IsOk(createCall[1].outcome.status)) =>
       createCall[1].outcome.queue = <<>>
  /\ \A t \in Threads :
       (pc[t] = "done" /\ ~IsOk(frame[t].status)) => errQueue[t] = <<>>

====
